---------------------------- MODULE Spec2Model ----------------------------
(***************************************************************************)
(* State machine of discord/opus.py: the process-wide libopus binding      *)
(* (_lib), its loader, and the Encoder objects that own a native encoder   *)
(* state.  The native library is the environment: each native call is an   *)
(* operator giving the set of outcomes libopus can produce for it.         *)
(* The operations run in threads.  A ctypes call releases the interpreter  *)
(* lock while the native function runs, so an operation that makes a       *)
(* native call is two steps, the call and its return, and steps of other   *)
(* threads fall between them.                                              *)
(* Spec is the specification of opus.py.  SpecCtx is the specification of  *)
(* Context.invoke of discord/ext/commands/context.py, which shares no      *)
(* state with opus.py.                                                     *)
(***************************************************************************)
EXTENDS Integers, Sequences, FiniteSets, TLC

(***************************************************************************)
(* Bounds of the model.                                                    *)
(***************************************************************************)
\* Invocations of __del__ on one Encoder object.
MaxTeardowns == 2
\* Longest packet the native encoder writes in the model.
MaxPacket == 2
\* Calls of Context.invoke on one Context.
MaxInvokes == 2

\* The Encoder objects the process creates: one, shared by the threads.
Encoders == {1}

\* The threads that construct, use and tear down Encoders.
Threads == {1, 2}

(***************************************************************************)
(* Program constants.                                                      *)
(***************************************************************************)
OK == 0
APPLICATION_AUDIO == 2049
APPLICATION_VOIP == 2048
APPLICATION_LOWDELAY == 2051
\* self.frame_length = 20
FRAME_LENGTH == 20

None == "None"

\* self._state = None: passed to a native call, None is the NULL pointer.
NoState == [lib |-> None, id |-> 0, Fs |-> 0, channels |-> 0]

\* Names of the five functions the loader binds, in the order it binds them.
exported_functions ==
    << "opus_strerror", "opus_encoder_get_size", "opus_encoder_create",
       "opus_encode", "opus_encoder_destroy" >>

ExportedNames == { exported_functions[i] : i \in 1..Len(exported_functions) }

(***************************************************************************)
(* The environment: shared objects the dynamic linker can be asked for.    *)
(* LibraryFiles maps the name of every object that can be opened to the    *)
(* symbols it exports; a name outside its domain cannot be opened.         *)
(* None (find_library found nothing) opens the running program itself,     *)
(* which exports no opus symbol.                                           *)
(***************************************************************************)
CompleteLibs == {"opusA", "opusB"}

LibraryFiles ==
    [n \in CompleteLibs |-> ExportedNames]
    @@ [n \in {"no_strerror"} |-> ExportedNames \ {"opus_strerror"}]
    @@ [n \in {"no_destroy"} |-> ExportedNames \ {"opus_encoder_destroy"}]
    @@ [n \in {None} |-> {}]

\* Names a caller may pass to load_opus, or find_library may return.
LibraryNames == (DOMAIN LibraryFiles \ {None}) \cup {"nonexistent"}

(***************************************************************************)
(* libopus_loader(name): opens the library, then looks up every exported   *)
(* function in order; the first failure is raised.  The result is a record *)
(* with the exception raised ("" when none) and the library returned.      *)
(***************************************************************************)
FirstMissing(name) ==
    LET missing == { i \in 1..Len(exported_functions) :
                        exported_functions[i] \notin LibraryFiles[name] }
    IN  IF missing = {} THEN 0
        ELSE CHOOSE i \in missing : \A j \in missing : i <= j

\* Variant: binds the library without looking up the exported functions.
libopus_loader_unchecked(name) ==
    IF name \notin DOMAIN LibraryFiles
    THEN [raised |-> "OSError", symbol |-> "", lib |-> None]
    ELSE [raised |-> "", symbol |-> "", lib |-> name]

libopus_loader(name) ==
    IF name \notin DOMAIN LibraryFiles
    THEN [raised |-> "OSError", symbol |-> "", lib |-> None]
    ELSE IF FirstMissing(name) # 0
    THEN [raised |-> "AttributeError",
          symbol |-> exported_functions[FirstMissing(name)], lib |-> None]
    ELSE [raised |-> "", symbol |-> "", lib |-> name]

(***************************************************************************)
(* Context.__init__ with keyword arguments attrs.  attrs is a record; a    *)
(* dict is a set of << key, value >> pairs and a list a sequence.          *)
(***************************************************************************)
\* attrs.pop(key, default)
Pop(attrs, key, default) ==
    IF key \in DOMAIN attrs THEN attrs[key] ELSE default

\* attrs.pop('prefix') has no default: attrs always holds a prefix.
Context(attrs) ==
    [message |-> Pop(attrs, "message", None),
     bot |-> Pop(attrs, "bot", None),
     args |-> Pop(attrs, "args", << >>),
     kwargs |-> Pop(attrs, "kwargs", {}),
     prefix |-> attrs["prefix"],
     command |-> Pop(attrs, "command", None),
     view |-> Pop(attrs, "view", None),
     invoked_with |-> Pop(attrs, "invoked_with", None),
     invoked_subcommand |-> Pop(attrs, "invoked_subcommand", None),
     subcommand_passed |-> Pop(attrs, "subcommand_passed", None)]

VARIABLES
    ctx,         \* the Context object
    dispatched,  \* the calls Context.invoke made on commands, in order
    phase,       \* "import": module body still running; "run"; "crashed"
    _lib,        \* the process-wide binding: None or the name of a library
    enc,         \* the Encoder objects
    live,        \* native encoder states allocated and not yet freed
    nextHandle,  \* allocation counter of the native library
    teardowns,   \* per Encoder: invocations of __del__
    destroys,    \* per Encoder: native opus_encoder_destroy calls made for it
    pc,          \* per thread: where it is inside an operation
    last         \* the operation the last step completed ("none" when the
                 \* step only made a call): its inputs, outcome and native calls

vars == << phase, _lib, enc, live, nextHandle, teardowns, destroys, pc, last >>

ctxVars == << ctx, dispatched >>

allVars == << vars, ctxVars >>

\* return _lib is not None
is_loaded == _lib # None

NoCall == << >>

\* One native call: the function, the library it went to, the encoder state
\* and the integer passed (status code or max_data_bytes), and what it returned.
Call(fn, lib, st, arg, ret) ==
    [fn |-> fn, lib |-> lib, st |-> st, arg |-> arg, ret |-> ret]

\* The record of one operation: name is the library name given, pcm_len the
\* length of the PCM given, raised the exception that reached the caller
\* ("" when none), code and msg the fields of an OpusError, value the bytes
\* returned, packet the bytes the native encoder wrote, calls the native calls.
Result(op, e, name, pcm_len, raised, code, msg, value, packet, calls) ==
    [op |-> op, enc |-> e, name |-> name, pcm_len |-> pcm_len,
     raised |-> raised, code |-> code, msg |-> msg, value |-> value,
     packet |-> packet, calls |-> calls]

\* No operation completed in the step.
NoResult == Result("none", 0, "", 0, "", 0, "", << >>, << >>, NoCall)

\* A thread that is in no operation.
Idle ==
    [at |-> "idle", enc |-> 0, lib |-> None, st |-> NoState,
     pcm_len |-> 0, frame_sz |-> 0, calls |-> NoCall]

\* A thread that is in an operation on Encoder e: at is "is_loaded" once
\* __init__ passed its check, else the native function the thread is
\* inside; lib is the library and st the state the native call was made
\* with, calls the native calls of the operation that have returned.
At(at, e, lib, st, pcm_len, frame_sz, calls) ==
    [at |-> at, enc |-> e, lib |-> lib, st |-> st,
     pcm_len |-> pcm_len, frame_sz |-> frame_sz, calls |-> calls]

Unborn ==
    [alive |-> "unborn", hasState |-> FALSE, _state |-> NoState,
     sampling_rate |-> 0, channels |-> 0, application |-> 0,
     frame_length |-> 0, sample_size |-> 0, samples_per_frame |-> 0,
     frame_size |-> 0]

Init ==
    /\ ctx = Context([prefix |-> "!"])
    /\ dispatched = << >>
    /\ phase = "import"
    /\ _lib = None
    /\ enc = [e \in Encoders |-> Unborn]
    /\ live = {}
    /\ nextHandle = 1
    /\ teardowns = [e \in Encoders |-> 0]
    /\ destroys = [e \in Encoders |-> 0]
    /\ pc = [t \in Threads |-> Idle]
    /\ last = NoResult

(***************************************************************************)
(* Module-level default discovery:                                         *)
(*   try: _lib = libopus_loader(ctypes.util.find_library('opus'))          *)
(*   except: _lib = None                                                   *)
(* found is what find_library returned.                                    *)
(***************************************************************************)
\* Variant: except OSError.
ExceptCatches_OSError(exc) == exc = "OSError"

\* The bare except clause catches every exception.
ExceptCatches(exc) == TRUE

DiscoveredLib(found) ==
    IF libopus_loader(found).raised # "" THEN None
    ELSE libopus_loader(found).lib

Discover(found) ==
    LET r == libopus_loader(found)
        escaped == r.raised # "" /\ ~ExceptCatches(r.raised)
    IN  /\ phase = "import"
        /\ phase' = IF escaped THEN "crashed" ELSE "run"
        /\ _lib' = DiscoveredLib(found)
        /\ last' = Result("discover", 0, found, 0,
                          IF escaped THEN r.raised ELSE "", 0, "",
                          << >>, << >>, NoCall)
        /\ UNCHANGED << enc, live, nextHandle, teardowns, destroys, pc >>

(***************************************************************************)
(* load_opus(name): global _lib; _lib = libopus_loader(name).  The         *)
(* assignment happens only when the loader returns.                        *)
(***************************************************************************)
\* Variant: a failed load clears the binding.
LoadedLib_clears(name, old) ==
    IF libopus_loader(name).raised # "" THEN None
    ELSE libopus_loader(name).lib

LoadedLib(name, old) ==
    IF libopus_loader(name).raised # "" THEN old
    ELSE libopus_loader(name).lib

load_opus(name) ==
    /\ phase = "run"
    /\ _lib' = LoadedLib(name, _lib)
    /\ last' = Result("load", 0, name, 0, libopus_loader(name).raised, 0,
                      libopus_loader(name).symbol, << >>, << >>, NoCall)
    /\ UNCHANGED << phase, enc, live, nextHandle, teardowns, destroys, pc >>

(***************************************************************************)
(* The native library.  An encoder state is a record naming the library    *)
(* that allocated it, its allocation number and the configuration libopus  *)
(* keeps in it.                                                            *)
(***************************************************************************)
ValidRates == {8000, 12000, 16000, 24000, 48000}
ValidChannels == {1, 2}
ValidApplications == {APPLICATION_VOIP, APPLICATION_AUDIO, APPLICATION_LOWDELAY}

\* opus_strerror: the message libopus keeps for each status code.
StrErrorTable ==
    [c \in {-1} |-> "invalid argument"]
    @@ [c \in {-2} |-> "buffer too small"]
    @@ [c \in {-3} |-> "internal error"]
    @@ [c \in {-7} |-> "memory allocation failed"]

NativeErrorCodes == DOMAIN StrErrorTable

opus_strerror(code) ==
    IF code \in DOMAIN StrErrorTable THEN StrErrorTable[code] ELSE "unknown error"

\* opus_encoder_create: the status codes it can store in the out-parameter.
opus_encoder_create(Fs, channels, application) ==
    IF Fs \in ValidRates /\ channels \in ValidChannels
       /\ application \in ValidApplications
    THEN {OK, -7}
    ELSE {-1}

\* Frame sizes libopus accepts at rate Fs: 2.5, 5, 10, 20, 40 and 60 ms.
ValidFrameSize(Fs, n) ==
    \/ 400 * n = Fs \/ 200 * n = Fs \/ 100 * n = Fs
    \/ 50 * n = Fs \/ 25 * n = Fs \/ 50 * n = 3 * Fs

Min(a, b) == IF a <= b THEN a ELSE b

PacketLengths(max_bytes) == 1..Min(max_bytes, MaxPacket)

Returns(S) == { [crash |-> FALSE, ret |-> r] : r \in S }

Undefined(max_bytes) ==
    {[crash |-> TRUE, ret |-> 0]}
    \cup Returns(NativeErrorCodes \cup PacketLengths(max_bytes))

\* opus_encode: what the call can return, or a crash.  A call on a state
\* the bound library does not hold, or with fewer PCM bytes than the frame
\* needs, is undefined: any outcome.
opus_encode(lib, st, pcm_len, frame_sz, max_bytes) ==
    IF st = NoState \/ st \notin live \/ st.lib # lib
    THEN Undefined(max_bytes)
    ELSE IF ~ValidFrameSize(st.Fs, frame_sz)
    THEN Returns({-1})
    ELSE IF pcm_len < frame_sz * st.channels * 2
    THEN Undefined(max_bytes)
    ELSE IF max_bytes <= 0
    THEN Returns({-1})
    ELSE Returns({-2, -3} \cup PacketLengths(max_bytes))

\* opus_encoder_destroy: "freed", "nothing" (a NULL argument) or "crash".
opus_encoder_destroy(lib, st) ==
    IF st = NoState THEN {"nothing"}
    ELSE IF st \in live /\ st.lib = lib THEN {"freed"}
    ELSE IF st \in live THEN {"freed", "crash"}
    ELSE {"nothing", "crash"}

ByteValues == {1, 200}

\* The packets of n bytes the native encoder may write: the byte values
\* alternate, so that every position of a packet is told from its neighbours.
Packets(n) ==
    { [i \in 1..n |-> IF i % 2 = 1 THEN b
                      ELSE CHOOSE c \in ByteValues : c # b] : b \in ByteValues }

(***************************************************************************)
(* OpusError(code): self.code = code; the message is                       *)
(* _lib.opus_strerror(code).decode('utf-8').                               *)
(***************************************************************************)
\* Variant: the code is stored as a positive number.
OpusErrorCode_abs(code) == IF code < 0 THEN -code ELSE code

\* self.code = code
OpusErrorCode(code) == code

\* Variant: the message is looked up for the negated code.
OpusErrorMsg_negated(code) == opus_strerror(-code)

\* msg = _lib.opus_strerror(self.code).decode('utf-8'): the text libopus
\* returns, which is ASCII and so the same text once decoded.
OpusErrorMsg(code) == opus_strerror(code)

\* The native call OpusError.__init__ makes, on the library _lib named
\* when the call was made.
OpusErrorCalls(lib, code) == << Call("opus_strerror", lib, NoState, code, 0) >>

(***************************************************************************)
(* Frame geometry of Encoder.__init__.  int(sampling_rate / 1000 * 20) is  *)
(* computed in double precision and truncated toward zero; for every       *)
(* integer rate from 0 to 400000 that is the truncated quotient of         *)
(* sampling_rate * 20 by 1000.                                             *)
(***************************************************************************)
TruncDiv(a, b) == IF a >= 0 THEN a \div b ELSE -((-a) \div b)

\* Variant: the sample size of one channel, whatever the channel count.
sample_size_mono(channels) == 2

sample_size(channels) == 2 * channels

samples_per_frame(sampling_rate, frame_length) ==
    TruncDiv(sampling_rate * frame_length, 1000)

frame_size(sampling_rate, channels, frame_length) ==
    samples_per_frame(sampling_rate, frame_length) * sample_size(channels)

\* The attributes __init__ sets before it looks at the library.
NewEncoder(sampling, channels, application) ==
    [alive |-> "init", hasState |-> FALSE, _state |-> NoState,
     sampling_rate |-> sampling, channels |-> channels,
     application |-> application,
     frame_length |-> FRAME_LENGTH,
     sample_size |-> sample_size(channels),
     samples_per_frame |-> samples_per_frame(sampling, FRAME_LENGTH),
     frame_size |-> frame_size(sampling, channels, FRAME_LENGTH)]

\* Variant: __init__ without the is_loaded() check.
InitRaisesNotLoaded_skipped == FALSE

\* if not is_loaded(): raise OpusNotLoaded()
InitRaisesNotLoaded == ~is_loaded

\* Variant: only a positive status counts as a failure.
CreateFailed_positive(ret) == ret > 0

\* _create_state: if ret.value != 0: raise OpusError(ret.value)
CreateFailed(ret) == ret # 0

(***************************************************************************)
(* raise OpusError(code) in thread t, inside operation op whose native     *)
(* call returned the status: OpusError.__init__ reads _lib and enters      *)
(* opus_strerror (OpusError_init, part of the step in which the status     *)
(* came back); when that call has returned the message is decoded and the  *)
(* exception reaches the caller of the operation (OpusError_raise).        *)
(***************************************************************************)
OpusError_init(t, op, pcm_len, calls) ==
    IF _lib = None
    THEN /\ last' = Result(op, pc[t].enc, "", pcm_len, "AttributeError", 0, "",
                           << >>, << >>, calls)
         /\ pc' = [pc EXCEPT ![t] = Idle]
    ELSE /\ last' = NoResult
         /\ pc' = [pc EXCEPT ![t] =
                     At("opus_strerror", pc[t].enc, _lib, NoState, pcm_len, 0,
                        calls)]

\* The operation the exception is raised in: the one that made the call.
RaisedIn(call) == IF call.fn = "opus_encoder_create" THEN "init" ELSE "encode"

OpusError_raise(t) ==
    /\ phase = "run"
    /\ pc[t].at = "opus_strerror"
    /\ LET code == pc[t].calls[1].ret
           op == RaisedIn(pc[t].calls[1])
       IN  /\ last' = Result(op, pc[t].enc, "", pc[t].pcm_len, "OpusError",
                             OpusErrorCode(code), OpusErrorMsg(code),
                             << >>, << >>,
                             pc[t].calls \o OpusErrorCalls(pc[t].lib, code))
           /\ enc' = IF op = "init"
                     THEN [enc EXCEPT ![pc[t].enc].alive = "partial"] ELSE enc
    /\ pc' = [pc EXCEPT ![t] = Idle]
    /\ UNCHANGED << phase, _lib, live, nextHandle, teardowns, destroys >>

(***************************************************************************)
(* Encoder.__init__(sampling, channels, application) on a new object e,    *)
(* in thread t.  The object is handed to the caller only when __init__     *)
(* returns ("returned"); while __init__ runs it is "init", and one whose   *)
(* __init__ raised is "partial", seen by the collector alone.              *)
(* Encoder_init is __init__ up to the is_loaded() check.  _create_state    *)
(* reads _lib again and enters opus_encoder_create.  _create_state_return  *)
(* is the return of that call with its status: a nonzero one builds an     *)
(* OpusError (OpusError_init, below); otherwise the new state is assigned  *)
(* to self._state.                                                         *)
(***************************************************************************)
Encoder_init(t, e, sampling, channels, application) ==
    /\ phase = "run"
    /\ pc[t] = Idle
    /\ enc[e].alive = "unborn"
    /\ LET self == NewEncoder(sampling, channels, application)
       IN  IF InitRaisesNotLoaded
           THEN /\ enc' = [enc EXCEPT ![e] = [self EXCEPT !.alive = "partial"]]
                /\ last' = Result("init", e, "", 0, "OpusNotLoaded", 0, "",
                                  << >>, << >>, NoCall)
                /\ pc' = pc
           ELSE /\ enc' = [enc EXCEPT ![e] = self]
                /\ last' = NoResult
                /\ pc' = [pc EXCEPT ![t] = At("is_loaded", e, None, NoState, 0, 0, NoCall)]
    /\ UNCHANGED << phase, _lib, live, nextHandle, teardowns, destroys >>

_create_state(t) ==
    /\ phase = "run"
    /\ pc[t].at = "is_loaded"
    /\ IF _lib = None
       THEN /\ enc' = [enc EXCEPT ![pc[t].enc].alive = "partial"]
            /\ last' = Result("init", pc[t].enc, "", 0, "AttributeError", 0, "",
                              << >>, << >>, NoCall)
            /\ pc' = [pc EXCEPT ![t] = Idle]
       ELSE /\ enc' = enc
            /\ last' = NoResult
            /\ pc' = [pc EXCEPT ![t] =
                        At("opus_encoder_create", pc[t].enc, _lib, NoState, 0, 0,
                           NoCall)]
    /\ UNCHANGED << phase, _lib, live, nextHandle, teardowns, destroys >>

_create_state_return(t) ==
    /\ phase = "run"
    /\ pc[t].at = "opus_encoder_create"
    /\ LET e == pc[t].enc
           self == enc[e]
       IN  \E ret \in opus_encoder_create(self.sampling_rate, self.channels,
                                          self.application) :
           LET result == [lib |-> pc[t].lib, id |-> nextHandle,
                          Fs |-> self.sampling_rate, channels |-> self.channels]
               create == Call("opus_encoder_create", pc[t].lib,
                              IF ret = OK THEN result ELSE NoState, 0, ret)
           IN  IF CreateFailed(ret)
               THEN /\ OpusError_init(t, "init", 0, << create >>)
                    /\ enc' = IF pc'[t] = Idle
                              THEN [enc EXCEPT ![e].alive = "partial"] ELSE enc
                    /\ UNCHANGED << live, nextHandle >>
               ELSE /\ enc' = [enc EXCEPT ![e] =
                                 [self EXCEPT !.alive = "returned",
                                              !.hasState = TRUE,
                                              !._state = result]]
                    /\ live' = live \cup {result}
                    /\ nextHandle' = nextHandle + 1
                    /\ last' = Result("init", e, "", 0, "", 0, "",
                                      << >>, << >>, << create >>)
                    /\ pc' = [pc EXCEPT ![t] = Idle]
    /\ UNCHANGED << phase, _lib, teardowns, destroys >>

(***************************************************************************)
(* Encoder.__del__: if hasattr(self, '_state'):                            *)
(*     _lib.opus_encoder_destroy(self._state); self._state = None          *)
(* Invoked by the collector, or by hand, on any object that exists.        *)
(* Encoder_del is __del__ up to and into the native call, which frees the  *)
(* state; Encoder_del_return is the assignment after the call returned.    *)
(***************************************************************************)
\* Variant: __del__ without the hasattr check.
DelDestroys_always(self) == TRUE

\* hasattr(self, '_state')
DelDestroys(self) == self.hasState

\* Variant: the reference is cleared before the native call is made.
DestroyArgument_cleared(self) == NoState

\* The argument of _lib.opus_encoder_destroy(self._state).
DestroyArgument(self) == self._state

\* The library a call _lib.f(st, ...) goes to: the global binding, read
\* when the call is made.
CallLibrary(st) == _lib

\* self._state = None
EncoderAfterDel(self) == [self EXCEPT !._state = NoState]

Encoder_del(t, e) ==
    /\ phase = "run"
    /\ pc[t] = Idle
    /\ enc[e].alive \in {"partial", "returned"}
    /\ teardowns[e] < MaxTeardowns
    /\ teardowns' = [teardowns EXCEPT ![e] = @ + 1]
    /\ IF ~DelDestroys(enc[e])
       THEN /\ last' = Result("del", e, "", 0, "", 0, "", << >>, << >>, NoCall)
            /\ UNCHANGED << phase, live, destroys, pc >>
       ELSE IF _lib = None
       THEN /\ last' = Result("del", e, "", 0, "AttributeError", 0, "",
                              << >>, << >>, NoCall)
            /\ UNCHANGED << phase, live, destroys, pc >>
       ELSE \E out \in opus_encoder_destroy(CallLibrary(DestroyArgument(enc[e])),
                                             DestroyArgument(enc[e])) :
            LET destroy == Call("opus_encoder_destroy",
                                CallLibrary(DestroyArgument(enc[e])),
                                DestroyArgument(enc[e]), 0, 0)
            IN  /\ destroys' = [destroys EXCEPT ![e] = @ + 1]
                /\ live' = IF out = "freed"
                           THEN live \ {DestroyArgument(enc[e])} ELSE live
                /\ IF out = "crash"
                   THEN /\ phase' = "crashed"
                        /\ pc' = pc
                        /\ last' = Result("del", e, "", 0, "crash", 0, "",
                                          << >>, << >>, << destroy >>)
                   ELSE /\ phase' = phase
                        /\ pc' = [pc EXCEPT ![t] =
                                    At("opus_encoder_destroy", e, destroy.lib,
                                       destroy.st, 0, 0, NoCall)]
                        /\ last' = NoResult
    /\ UNCHANGED << _lib, enc, nextHandle >>

Encoder_del_return(t) ==
    /\ phase = "run"
    /\ pc[t].at = "opus_encoder_destroy"
    /\ enc' = [enc EXCEPT ![pc[t].enc] = EncoderAfterDel(@)]
    /\ last' = Result("del", pc[t].enc, "", 0, "", 0, "", << >>, << >>,
                      << Call("opus_encoder_destroy", pc[t].lib, pc[t].st, 0, 0) >>)
    /\ pc' = [pc EXCEPT ![t] = Idle]
    /\ UNCHANGED << phase, _lib, live, nextHandle, teardowns, destroys >>

(***************************************************************************)
(* Encoder.encode(pcm, frame_size).  pcm is given by its length: the code  *)
(* reads len(pcm) and hands the bytes to the native call.                  *)
(* Encoder_encode is encode up to and into the native call, made with the  *)
(* _lib and self._state read at that moment.  Encoder_encode_return is the *)
(* return of that call: what it did and returned, then the bytes or, for   *)
(* a negative status, an OpusError (OpusError_init).  A state freed while  *)
(* the call runs is a state the library does not hold.                     *)
(***************************************************************************)
\* max_data_bytes = len(pcm)
max_data_bytes(pcm_len) == pcm_len

\* data = (ctypes.c_char * max_data_bytes)(): a zeroed buffer of max_data_bytes
\* bytes, given by its length; after the native call wrote packet into it
\* its byte at index i is:
OutputByte(packet, i) == IF i <= Len(packet) THEN packet[i] ELSE 0

\* Variant: data[:ret + 1].
Slice_plusOne(buffer_len, packet, ret) ==
    [i \in 1..Min(ret + 1, buffer_len) |-> OutputByte(packet, i)]

\* data[:ret], a Python slice (ret >= 0): clamped to the buffer's length.
Slice(buffer_len, packet, ret) ==
    [i \in 1..Min(ret, buffer_len) |-> OutputByte(packet, i)]

\* array.array('b', ...) reads each byte as a signed char; tobytes() writes
\* each signed char back as a byte.
ToSignedChar(b) == IF b > 127 THEN b - 256 ELSE b
ToByte(c) == IF c < 0 THEN c + 256 ELSE c

ToBytes(s) == [i \in DOMAIN s |-> ToByte(ToSignedChar(s[i]))]

\* return array.array('b', data[:ret]).tobytes()
EncodeResult(buffer_len, packet, ret) == ToBytes(Slice(buffer_len, packet, ret))

\* if ret < 0: raise OpusError(ret)
EncodeFailed(ret) == ret < 0

\* Variant: a failed encode drops the encoder state.
EncoderAfterEncode_closes(self, ret) ==
    IF ret < 0 THEN [self EXCEPT !._state = NoState] ELSE self

\* encode assigns no attribute of self, whatever the native call returned.
EncoderAfterEncode(self, ret) == self

Encoder_encode(t, e, pcm_len, frame_sz) ==
    /\ phase = "run"
    /\ pc[t] = Idle
    /\ enc[e].alive = "returned"
    /\ IF _lib = None
       THEN /\ last' = Result("encode", e, "", pcm_len, "AttributeError", 0, "",
                              << >>, << >>, NoCall)
            /\ pc' = pc
       ELSE /\ last' = NoResult
            /\ pc' = [pc EXCEPT ![t] =
                        At("opus_encode", e, CallLibrary(enc[e]._state),
                           enc[e]._state, pcm_len, frame_sz, NoCall)]
    /\ UNCHANGED << phase, _lib, enc, live, nextHandle, teardowns, destroys >>

Encoder_encode_return(t) ==
    /\ phase = "run"
    /\ pc[t].at = "opus_encode"
    /\ LET e == pc[t].enc
           pcm_len == pc[t].pcm_len
       IN  \E out \in opus_encode(pc[t].lib, pc[t].st, pcm_len, pc[t].frame_sz,
                               max_data_bytes(pcm_len)) :
           LET ret == out.ret
               call == Call("opus_encode", pc[t].lib, pc[t].st,
                            max_data_bytes(pcm_len), ret)
           IN  IF out.crash
               THEN /\ phase' = "crashed"
                    /\ enc' = enc
                    /\ pc' = pc
                    /\ last' = Result("encode", e, "", pcm_len, "crash", 0, "",
                                      << >>, << >>, << call >>)
               ELSE IF EncodeFailed(ret)
               THEN /\ phase' = phase
                    /\ enc' = [enc EXCEPT ![e] = EncoderAfterEncode(@, ret)]
                    /\ OpusError_init(t, "encode", pcm_len, << call >>)
               ELSE \E packet \in Packets(ret) :
                    /\ phase' = phase
                    /\ enc' = [enc EXCEPT ![e] = EncoderAfterEncode(@, ret)]
                    /\ pc' = [pc EXCEPT ![t] = Idle]
                    /\ last' = Result("encode", e, "", pcm_len, "", 0, "",
                                      EncodeResult(max_data_bytes(pcm_len),
                                                   packet, ret),
                                      packet, << call >>)
    /\ UNCHANGED << _lib, live, nextHandle, teardowns, destroys >>

(***************************************************************************)
(* Inputs.                                                                 *)
(***************************************************************************)
\* (sampling, channels, application) a caller constructs an Encoder with:
\* a configuration libopus accepts and one it rejects (44100 Hz).
EncoderConfigs ==
    { << 48000, 2, APPLICATION_AUDIO >>, << 44100, 2, APPLICATION_AUDIO >> }

\* (len(pcm), frame_size) a caller encodes with: one 20 ms frame of 48 kHz
\* stereo, a frame size libopus rejects at 48 kHz (160 samples), and PCM
\* shorter than the frame asked for.
EncodeInputs == { << 3840, 960 >>, << 3840, 160 >>, << 320, 960 >> }

Next ==
    \/ \E found \in LibraryNames \cup {None} :
          Discover(found) /\ UNCHANGED ctxVars
    \/ \E name \in LibraryNames : load_opus(name) /\ UNCHANGED ctxVars
    \/ \E t \in Threads, e \in Encoders, cfg \in EncoderConfigs :
          Encoder_init(t, e, cfg[1], cfg[2], cfg[3]) /\ UNCHANGED ctxVars
    \/ \E t \in Threads : _create_state(t) /\ UNCHANGED ctxVars
    \/ \E t \in Threads : _create_state_return(t) /\ UNCHANGED ctxVars
    \/ \E t \in Threads, e \in Encoders :
          Encoder_del(t, e) /\ UNCHANGED ctxVars
    \/ \E t \in Threads : Encoder_del_return(t) /\ UNCHANGED ctxVars
    \/ \E t \in Threads, e \in Encoders, in \in EncodeInputs :
          Encoder_encode(t, e, in[1], in[2]) /\ UNCHANGED ctxVars
    \/ \E t \in Threads : Encoder_encode_return(t) /\ UNCHANGED ctxVars
    \/ \E t \in Threads : OpusError_raise(t) /\ UNCHANGED ctxVars

Spec == Init /\ [][Next]_allVars

(***************************************************************************)
(* Context.invoke(self, command, kwargs):                                  *)
(*   if len(kwargs) == 0: yield from command.invoke(self)                  *)
(*   else: yield from command.callback with the keyword arguments kwargs   *)
(* A call on a command is recorded with the entry point, the positional    *)
(* arguments and the keyword arguments it received; given is the kwargs    *)
(* Context.invoke was called with.                                         *)
(***************************************************************************)
\* Variant: tests the context's own kwargs attribute.
InvokesCanonical_self(self, kwargs) == Cardinality(self.kwargs) = 0

\* len(kwargs) == 0
InvokesCanonical(self, kwargs) == Cardinality(kwargs) = 0

Dispatch(self, command, kwargs) ==
    IF InvokesCanonical(self, kwargs)
    THEN [command |-> command, entry |-> "invoke", args |-> << self >>,
          kwargs |-> {}, given |-> kwargs]
    ELSE [command |-> command, entry |-> "callback", args |-> << >>,
          kwargs |-> kwargs, given |-> kwargs]

\* invoke assigns no attribute of self.
ContextAfterInvoke(self) == self

Context_invoke(command, kwargs) ==
    /\ Len(dispatched) < MaxInvokes
    /\ dispatched' = Append(dispatched, Dispatch(ctx, command, kwargs))
    /\ ctx' = ContextAfterInvoke(ctx)

\* The commands a caller passes, and the keyword arguments.
Commands == {"ping", "echo"}

KwargChoices ==
    { {}, {<< "text", "hi" >>}, {<< "times", "2" >>},
      {<< "text", "hi" >>, << "times", "2" >>} }

\* The attrs a Context is constructed with.
AttrChoices ==
    { [prefix |-> "!"],
      [prefix |-> "?", message |-> "m1", bot |-> "bot", command |-> "ping",
       invoked_with |-> "p"],
      [prefix |-> "!", message |-> "m2", args |-> << "hi" >>,
       kwargs |-> {<< "text", "hi" >>}, command |-> "echo",
       invoked_with |-> "echo", invoked_subcommand |-> "sub",
       subcommand_passed |-> "sub", view |-> "view"] }

CtxInit ==
    /\ ctx \in { Context(attrs) : attrs \in AttrChoices }
    /\ dispatched = << >>
    /\ phase = "import"
    /\ _lib = None
    /\ enc = [e \in Encoders |-> Unborn]
    /\ live = {}
    /\ nextHandle = 1
    /\ teardowns = [e \in Encoders |-> 0]
    /\ destroys = [e \in Encoders |-> 0]
    /\ pc = [t \in Threads |-> Idle]
    /\ last = NoResult

CtxNext ==
    \E command \in Commands, kwargs \in KwargChoices :
        Context_invoke(command, kwargs) /\ UNCHANGED vars

SpecCtx == CtxInit /\ [][CtxNext]_allVars

(***************************************************************************)
(* Vocabulary of the properties.                                           *)
(***************************************************************************)
\* Encoder e is Ready: constructed, and its native state not yet torn down.
Ready(e) == enc[e].alive = "returned" /\ enc[e]._state # NoState

\* Encoder e is Closed: it reached Ready and a teardown cleared its state.
Closed(e) == enc[e].hasState /\ enc[e]._state = NoState

\* The thread is inside encode: in opus_encode, or in the opus_strerror of
\* the OpusError encode raises.
InEncode(p) ==
    \/ p.at = "opus_encode"
    \/ p.at = "opus_strerror" /\ p.calls[1].fn = "opus_encode"

\* A library that cannot be opened, or lacks one of the five functions.
BadLibrary(name) ==
    \/ name \notin DOMAIN LibraryFiles
    \/ ~(ExportedNames \subseteq LibraryFiles[name])

(***************************************************************************)
(* C1: a second teardown of the same Encoder makes no native               *)
(* encoderDestroy call and raises nothing, so over any sequence of         *)
(* teardowns encoderDestroy is invoked exactly once per Encoder that       *)
(* reached Ready.  Stated as claimed; the code calls opus_encoder_destroy  *)
(* again, with None, on every later __del__.                               *)
(***************************************************************************)
C1_DestroyExactlyOnce ==
    /\ \A e \in Encoders :
         enc[e].hasState =>
            destroys[e] = (IF teardowns[e] = 0 THEN 0 ELSE 1)
    /\ (last.op = "del" /\ teardowns[last.enc] >= 2) =>
            (last.calls = NoCall /\ last.raised = "")

(***************************************************************************)
(* C2: encode on an Encoder after teardown always fails with the           *)
(* closed-state error: never with OpusError, never returning bytes.        *)
(* Stated as claimed; the code hands the cleared state to opus_encode.     *)
(***************************************************************************)
C2_EncodeAfterCloseFailsClosed ==
    /\ \A t \in Threads : pc[t].at = "opus_encode" => pc[t].st # NoState
    /\ (last.op = "encode" /\ last.calls # NoCall
           /\ last.calls[1].st = NoState) =>
          last.raised = "ClosedStateError"

(***************************************************************************)
(* C3: constructing an Encoder while is_loaded() is false raises           *)
(* OpusNotLoaded and nothing else, and makes no native call.               *)
(***************************************************************************)
C3_NotLoadedConstruction ==
    (last.op = "init" /\ ~is_loaded) =>
        /\ last.raised = "OpusNotLoaded"
        /\ last.calls = NoCall
        /\ enc[last.enc].alive = "partial"
        /\ ~enc[last.enc].hasState
        /\ live = {}

C3_Witness ==
    last.op = "init" /\ ~is_loaded /\ last.raised = "OpusNotLoaded"

(***************************************************************************)
(* C4: load_opus of a library that cannot be opened, or that lacks one of  *)
(* the five functions, raises to the caller and leaves _lib (and so        *)
(* is_loaded()) exactly as it was.                                         *)
(***************************************************************************)
C4_FailedLoadKeepsBinding ==
    [][ (last'.op = "load" /\ BadLibrary(last'.name)) =>
            /\ last'.raised \in {"OSError", "AttributeError"}
            /\ _lib' = _lib ]_vars

C4_Witness ==
    /\ last.op = "load"
    /\ last.raised = "AttributeError"
    /\ last.msg = "opus_encoder_destroy"
    /\ _lib = "opusB"

(***************************************************************************)
(* C5: when opus_encoder_create reports a nonzero status, construction     *)
(* raises OpusError carrying that status, and the Encoder holds no native  *)
(* state and is not handed to the caller.                                  *)
(***************************************************************************)
C5_CreateFailure ==
    /\ (last.op = "init" /\ last.calls # NoCall /\ last.calls[1].ret # OK) =>
          /\ last.raised = "OpusError"
          /\ last.code = last.calls[1].ret
          /\ enc[last.enc].alive = "partial"
    /\ \A e \in Encoders :
          enc[e].alive \in {"init", "partial"} =>
             (~enc[e].hasState /\ enc[e]._state = NoState)

C5_Witness ==
    /\ last.op = "init"
    /\ last.raised = "OpusError"
    /\ last.code = -7
    /\ enc[last.enc].sampling_rate = 48000

(***************************************************************************)
(* C6: an encode on a Ready Encoder that gets a negative native status     *)
(* raises OpusError carrying that status and leaves the Encoder as it      *)
(* was: still Ready, same native state, same configuration and geometry;   *)
(* no step of encode (the call, its return, the raise) changes an Encoder. *)
(***************************************************************************)
C6_EncodeFailureNonFatal ==
    [][ /\ (last'.op = "encode" /\ last'.raised = "OpusError"
               /\ Ready(last'.enc)) =>
              /\ last'.code = last'.calls[1].ret
              /\ last'.code < 0
              /\ enc' = enc
              /\ live' = live
        /\ \A t \in Threads :
              (pc'[t] # pc[t] /\ (InEncode(pc[t]) \/ InEncode(pc'[t]))) =>
                 (enc' = enc /\ live' = live) ]_vars

\* An encode on e that another thread is inside returns bytes.
SuccessfulEncode(e) ==
    \E t \in Threads :
        pc[t].enc = e /\ Encoder_encode_return(t) /\ last'.raised = ""

C6_Witness ==
    /\ last.op = "encode"
    /\ last.raised = "OpusError"
    /\ last.code = -3
    /\ Ready(last.enc)
    /\ ENABLED SuccessfulEncode(last.enc)

(***************************************************************************)
(* C7: once a binding is present it stays present; after the import the    *)
(* binding changes only in a load_opus that returned, to the library it    *)
(* named; construction, encode and teardown leave it unchanged.            *)
(***************************************************************************)
C7_BindingStable ==
    [][ /\ is_loaded => _lib' # None
        /\ (phase = "run" /\ _lib' # _lib) =>
              (last'.op = "load" /\ last'.raised = "" /\ _lib' = last'.name)
        /\ last'.op \in {"init", "encode", "del"} => _lib' = _lib ]_vars

C7_Witness ==
    /\ last.op = "del"
    /\ Closed(last.enc)
    /\ last.calls # NoCall
    /\ last.calls[1].st.lib = "opusA"
    /\ _lib = "opusB"

(***************************************************************************)
(* C8: for every valid sampling rate and channel count a constructed       *)
(* Encoder has frame_length 20, sample_size 2 * channels,                  *)
(* samples_per_frame floor(rate * 20 / 1000) and frame_size                *)
(* samples_per_frame * 2 * channels; 48000 Hz stereo gives 960, 4, 3840.   *)
(***************************************************************************)
GeometryAsSpecified(self) ==
    /\ self.frame_length = 20
    /\ self.sample_size = 2 * self.channels
    /\ self.samples_per_frame = (self.sampling_rate * 20) \div 1000
    /\ self.frame_size = self.samples_per_frame * 2 * self.channels

C8_FrameGeometry ==
    /\ \A e \in Encoders :
          (enc[e].alive = "returned" /\ enc[e].sampling_rate \in ValidRates
              /\ enc[e].channels \in ValidChannels) =>
             GeometryAsSpecified(enc[e])
    /\ \A s \in ValidRates, c \in ValidChannels :
          GeometryAsSpecified(NewEncoder(s, c, APPLICATION_AUDIO))
    /\ \A e \in Encoders :
          (enc[e].sampling_rate = 48000 /\ enc[e].channels = 2) =>
             /\ enc[e].samples_per_frame = 960
             /\ enc[e].sample_size = 4
             /\ enc[e].frame_size = 3840

C8_Witness ==
    \E e \in Encoders :
        /\ Ready(e)
        /\ enc[e].sampling_rate = 48000
        /\ enc[e].channels = 2
        /\ enc[e].samples_per_frame = 960
        /\ enc[e].frame_size = 3840

(***************************************************************************)
(* C9: an encode on a Ready Encoder that succeeds passed                   *)
(* max_data_bytes = len(pcm) to opus_encode and returns exactly the first  *)
(* ret bytes the native call wrote: no longer than the input, and          *)
(* non-empty when the PCM holds at least frame_size bytes.                 *)
(***************************************************************************)
C9_EncodeResult ==
    (last.op = "encode" /\ last.raised = "" /\ Ready(last.enc)) =>
        LET call == last.calls[1]
        IN  /\ call.fn = "opus_encode"
            /\ call.arg = last.pcm_len
            /\ Len(last.value) = call.ret
            /\ \A i \in 1..call.ret : last.value[i] = last.packet[i]
            /\ Len(last.value) <= last.pcm_len
            /\ last.pcm_len >= enc[last.enc].frame_size => Len(last.value) >= 1

C9_Witness ==
    /\ last.op = "encode"
    /\ last.raised = ""
    /\ Ready(last.enc)
    /\ last.pcm_len >= enc[last.enc].frame_size
    /\ Len(last.value) = 2
    /\ last.value[1] = 200

(***************************************************************************)
(* C10: default discovery at import never raises, and when it fails (no    *)
(* library found, not openable, a function missing) the binding is absent; *)
(* a failing explicit load_opus always raises to its caller.               *)
(***************************************************************************)
C10_SilentDiscovery ==
    /\ last.op = "discover" =>
          /\ last.raised = ""
          /\ phase = "run"
          /\ BadLibrary(last.name) => ~is_loaded
          /\ ~BadLibrary(last.name) => _lib = last.name
    /\ (last.op = "load" /\ BadLibrary(last.name)) => last.raised # ""

C10_Witness ==
    /\ last.op = "discover"
    /\ last.name = "no_strerror"
    /\ ~is_loaded
    /\ phase = "run"


(***************************************************************************)
(* C11: each Context.invoke makes exactly one call on the command given:   *)
(* with no keyword arguments command.invoke with the context and never     *)
(* the callback; with at least one keyword argument the callback with      *)
(* exactly those keyword arguments and never command.invoke.  It leaves    *)
(* every field of the context unchanged.                                   *)
(***************************************************************************)
C11_InvokeDispatch ==
    [][ dispatched' # dispatched =>
          LET n == Len(dispatched')
              call == dispatched'[n]
          IN  /\ n = Len(dispatched) + 1
              /\ SubSeq(dispatched', 1, n - 1) = dispatched
              /\ call.given = {} =>
                    /\ call.entry = "invoke"
                    /\ call.args = << ctx >>
                    /\ call.kwargs = {}
              /\ call.given # {} =>
                    /\ call.entry = "callback"
                    /\ call.args = << >>
                    /\ call.kwargs = call.given
              /\ ctx' = ctx ]_allVars

C11_Witness ==
    /\ Len(dispatched) = 2
    /\ dispatched[1].entry = "invoke"
    /\ dispatched[1].command = "ping"
    /\ dispatched[2].entry = "callback"
    /\ dispatched[2].kwargs = {<< "text", "hi" >>, << "times", "2" >>}
    /\ ctx.kwargs # {}


(***************************************************************************)
(* C12: the first teardown of a Ready Encoder calls opus_encoder_destroy   *)
(* on exactly the state opus_encoder_create returned for that Encoder, and *)
(* only when that call has returned is the Encoder's reference cleared and *)
(* the Encoder Closed; a Closed Encoder stays Closed and never holds a     *)
(* state again.  The state a Ready Encoder holds is the one create         *)
(* returned: construction stores it and nothing but the return of a        *)
(* teardown changes it.                                                    *)
(***************************************************************************)
C12_TeardownDestroysCreated ==
    [][ \A e \in Encoders :
          /\ (last'.op = "init" /\ last'.enc = e /\ last'.raised = "") =>
                /\ last'.calls[1].fn = "opus_encoder_create"
                /\ last'.calls[1].st # NoState
                /\ last'.calls[1].st \notin live
                /\ enc'[e]._state = last'.calls[1].st
          /\ (Ready(e) /\ ~(last'.op = "del" /\ last'.enc = e)) =>
                enc'[e]._state = enc[e]._state
          /\ \A t \in Threads :
                (Ready(e) /\ pc[t] = Idle /\ pc'[t].enc = e
                    /\ pc'[t].at = "opus_encoder_destroy") =>
                   /\ pc'[t].st = enc[e]._state
                   /\ pc'[t].st \notin live'
                   /\ enc'[e] = enc[e]
          /\ (Ready(e) /\ last'.op = "del" /\ last'.enc = e) =>
                /\ Len(last'.calls) = 1
                /\ last'.calls[1].fn = "opus_encoder_destroy"
                /\ last'.calls[1].st = enc[e]._state
                /\ last'.raised # "crash" =>
                      /\ last'.raised = ""
                      /\ \E t \in Threads :
                            /\ pc[t].at = "opus_encoder_destroy"
                            /\ pc[t].st = last'.calls[1].st
                            /\ pc'[t] = Idle
                      /\ enc'[e].hasState
                      /\ enc'[e]._state = NoState
                      /\ enc[e]._state \notin live'
          /\ Closed(e) =>
                (enc'[e].hasState /\ enc'[e]._state = NoState) ]_allVars

C12_Witness ==
    /\ last.op = "del"
    /\ Closed(last.enc)
    /\ teardowns[last.enc] = 1
    /\ last.calls[1].st.id = 1
    /\ last.calls[1].st.lib = _lib
    /\ last.calls[1].st \notin live
    /\ last.calls[1].lib = _lib


(***************************************************************************)
(* C13: teardown of an Encoder that never reached Ready (its __init__      *)
(* raised OpusNotLoaded, or OpusError from opus_encoder_create) makes no   *)
(* native call, raises nothing and changes nothing, also when no library   *)
(* is bound.                                                               *)
(***************************************************************************)
C13_TeardownNeverReady ==
    [][ (last'.op = "del" /\ enc[last'.enc].alive = "partial") =>
            /\ last'.calls = NoCall
            /\ last'.raised = ""
            /\ enc' = enc
            /\ live' = live
            /\ destroys' = destroys
            /\ pc' = pc
            /\ phase' = "run" ]_allVars

C13_Witness ==
    /\ last.op = "del"
    /\ enc[last.enc].alive = "partial"
    /\ enc[last.enc].sampling_rate = 44100
    /\ ~is_loaded
    /\ teardowns[last.enc] = MaxTeardowns

(***************************************************************************)
(* C14: opus_encode is called only for a Ready Encoder: the state passed   *)
(* is one opus_encoder_create returned and opus_encoder_destroy has not    *)
(* been called on, never a cleared or destroyed one.  Stated as claimed;   *)
(* the code passes the cleared state of a Closed Encoder to opus_encode,   *)
(* and the state a teardown in another thread has just handed to           *)
(* opus_encoder_destroy.                                                   *)
(***************************************************************************)
C14_EncodeOnlyWhenReady ==
    [][ \A t \in Threads :
          (pc[t] = Idle /\ pc'[t].at = "opus_encode") =>
             /\ pc'[t].st # NoState
             /\ pc'[t].st \in live
             /\ Ready(pc'[t].enc) ]_allVars

(***************************************************************************)
(* C15: every OpusError built from a native status keeps that status in    *)
(* its code and has as its message the string opus_strerror returns for    *)
(* that same status, in construction and in encode alike.                  *)
(***************************************************************************)
C15_ErrorCarriesCodeAndMessage ==
    last.raised = "OpusError" =>
        /\ last.op \in {"init", "encode"}
        /\ Len(last.calls) = 2
        /\ last.calls[1].fn =
              (IF last.op = "init" THEN "opus_encoder_create" ELSE "opus_encode")
        /\ last.code = last.calls[1].ret
        /\ last.calls[2].fn = "opus_strerror"
        /\ last.calls[2].arg = last.calls[1].ret
        /\ last.msg = opus_strerror(last.calls[1].ret)
        /\ last.msg # ""

C15_Witness ==
    /\ last.op = "encode"
    /\ last.raised = "OpusError"
    /\ last.code = -2
    /\ last.msg = "buffer too small"
    /\ last.calls[1].ret = -2
    /\ last.calls[2].arg = -2

(***************************************************************************)
(* C16: under any interleaving of load_opus calls, successful or failing,  *)
(* with construction, encode and teardown, every native call (create,      *)
(* encode, destroy, strerror) goes to a bound library: no operation finds  *)
(* the binding absent when it makes a native call or translates an error.  *)
(***************************************************************************)
C16_NativeCallsNeedBinding ==
    /\ \A i \in DOMAIN last.calls :
          /\ last.calls[i].lib # None
          /\ last.calls[i].lib \in CompleteLibs
          /\ is_loaded
    /\ \A t \in Threads :
          pc[t] # Idle =>
             /\ is_loaded
             /\ pc[t].at # "is_loaded" => pc[t].lib \in CompleteLibs
    /\ last.op \in {"init", "encode", "del"} => last.raised # "AttributeError"
    /\ (\E e \in Encoders : enc[e].hasState) => is_loaded

\* A load replaced the binding while the thread was inside opus_encode, and
\* the error was translated by the new binding.
C16_Witness ==
    /\ last.op = "encode"
    /\ last.raised = "OpusError"
    /\ Len(last.calls) = 2
    /\ last.calls[1].lib = "opusA"
    /\ last.calls[2].fn = "opus_strerror"
    /\ last.calls[2].lib = "opusB"
    /\ \E t \in Threads : pc[t].at = "opus_encoder_destroy"

(***************************************************************************)
(* C17: every native encode, destroy and strerror call made for an         *)
(* Encoder goes to the library whose opus_encoder_create produced that     *)
(* Encoder's state, also after load_opus replaced the binding.             *)
(***************************************************************************)
C17_CallsGoToCreatingLibrary ==
    (last.op \in {"encode", "del"} /\ last.calls # NoCall
        /\ last.calls[1].st # NoState) =>
        \A i \in DOMAIN last.calls : last.calls[i].lib = last.calls[1].st.lib

=============================================================================
